---- MODULE Spec2Model ----
(***************************************************************************)
(* The log aggregation engine of streamlit_app.py: the reader class        *)
(* StreamlitLogStreamReader (one Poller thread per log group running       *)
(* stream_log_group, one consumer thread running update_logs_display, a    *)
(* shared stop flag), the one-shot fetch_recent_logs and the "Clear All"   *)
(* handler, which all act on the session's current_logs.                   *)
(*                                                                         *)
(* Threads are interleaved at the granularity of their reads and writes of *)
(* shared state: one action per such step, named after the statement.      *)
(* Strings are modelled as sequences of one-character strings, so that     *)
(* strip() and the f-string that builds the dedup key are computed and not *)
(* assumed.                                                                *)
(***************************************************************************)
EXTENDS Integers, Sequences, FiniteSets, TLC

VARIABLES
    \* ---- StreamlitLogStreamReader fields (lines 93-101)
    log_queue,        \* self.log_queue: the channel, a FIFO of pushed events
    stop_event,       \* self._stop_event
    seen_events,      \* self.seen_events: set of event ids
    retry_count,      \* self.retry_count
    logs_buffer,      \* self.logs_buffer
    \* ---- st.session_state
    current_logs,     \* st.session_state.current_logs
    \* ---- locals of each Poller thread (get_log_events / stream_log_group)
    pc,               \* position of the Poller of each log group
    last_timestamp,   \* stream_log_group's last_timestamp
    empty_responses,  \* stream_log_group's empty_responses
    events,           \* new_events being built, then the returned events
    response,         \* events of the response not yet looked at
    exc,              \* the exception caught at line 142
    loaded,           \* the value of self.retry_count loaded by "+= 1"
    chunks,           \* range(...) of the current chunked sleep
    slept,            \* chunks of the current sleep already slept
    depth,            \* frames of get_log_events on the Poller's stack
    \* ---- locals of the consumer thread (update_logs_display)
    cpc, cslept,
    \* ---- environment
    log_groups,       \* the log groups that have a Poller
    remote,           \* what filter_log_events may answer for each log group
    fuel,             \* fetches the environment still answers before stop
    clock,            \* datetime.now(), in milliseconds
    batch_remote,     \* what filter_log_events may answer to fetch_recent_logs
    refreshes,        \* calls of fetch_recent_logs still to come
    \* ---- the script thread
    log_count,        \* what the last fetch_recent_logs returned
    \* ---- history (not read by the program)
    fetched,          \* per Poller: ids of all events its fetches returned
    pushed,           \* per Poller: raw events it pushed, in order
    hist,             \* per Poller: counters of what it did
    consumed,         \* the events the consumer took off the queue, in order
    last_call,        \* the last call of fetch_recent_logs, if any
    dedup_keys,       \* the dedup keys computed for a pair of events, if any
    \* ---- the display of the logs (lines 215 and 948-975)
    same_list,        \* current_logs and logs_buffer are one list object
    search_term,      \* the text of the "Search logs" input
    filtered_logs     \* the script's filtered_logs, while it is bound

prog_vars   == <<log_queue, stop_event, seen_events, retry_count, logs_buffer, current_logs>>
poller_vars == <<pc, last_timestamp, empty_responses, events, response, exc, loaded, chunks, slept, depth>>
cons_vars   == <<cpc, cslept>>
env_vars    == <<log_groups, remote, fuel, clock, batch_remote, refreshes, log_count>>
hist_vars   == <<fetched, pushed, hist, consumed, last_call, dedup_keys>>
display_vars == <<same_list, search_term, filtered_logs>>
vars        == <<prog_vars, poller_vars, cons_vars, env_vars, hist_vars, display_vars>>

----------------------------------------------------------------------------
(* Strings *)

Min(a, b) == IF a <= b THEN a ELSE b
Max(a, b) == IF a >= b THEN a ELSE b

RECURSIVE Pow(_, _)
Pow(b, e) == IF e = 0 THEN 1 ELSE b * Pow(b, e - 1)

\* str(n) for n >= 0: the decimal digits, most significant first.
DigitChar == <<"0", "1", "2", "3", "4", "5", "6", "7", "8", "9">>
RECURSIVE Str(_)
Str(k) == IF k < 10 THEN <<DigitChar[k + 1]>>
          ELSE Str(k \div 10) \o <<DigitChar[(k % 10) + 1]>>

\* str.strip(): leading and trailing whitespace removed.
Whitespace == {" ", "\n", "\t"}
RECURSIVE lstrip(_)
lstrip(s) == IF s # <<>> /\ Head(s) \in Whitespace THEN lstrip(Tail(s)) ELSE s
RECURSIVE rstrip(_)
rstrip(s) == IF s # <<>> /\ s[Len(s)] \in Whitespace
             THEN rstrip(SubSeq(s, 1, Len(s) - 1)) ELSE s
strip(s) == rstrip(lstrip(s))

\* list[-k:]
Last(s, k) == IF Len(s) > k THEN SubSeq(s, Len(s) - k + 1, Len(s)) ELSE s

----------------------------------------------------------------------------
(* Program constants *)

\* The start_time the Pollers and fetch_recent_logs are called with.
StartTime == 100

max_retries    == 5
LogsBufferCap  == 200
SessionLogsCap == 1000
PacingChunks   == 5
ConsumerChunks == 2

\* A log group name is a path; modelled as its "/"-separated segments.
PortfolioManagerAgent == <<"", "aws", "lambda", "adt-dev-PortfolioManagerAgent">>
MarketAnalysisAgent   == <<"", "aws", "lambda", "adt-dev-MarketAnalysisAgent">>
RiskAssessmentAgent   == <<"", "aws", "lambda", "adt-dev-RiskAssessmentAgent">>
TradeExecutionAgent   == <<"", "aws", "lambda", "adt-dev-TradeExecutionAgent">>

\* log_group.split('/')[-1]
group_name(log_group) == log_group[Len(log_group)]

\* f"{event['timestamp']}-{event['message']}"
event_id(event) == Str(event.timestamp) \o <<"-">> \o event.message

\* (mutant) the time at a resolution of one millisecond
strftime_millis(ms) == ms

\* datetime.fromtimestamp(ms / 1000).strftime('%Y-%m-%d %H:%M:%S'): the time
\* at a resolution of one second.
strftime(ms) == ms \div 1000

\* Seconds are fractions <<numerator, denominator>> with a power of two as
\* denominator: the floats of the program hold these values exactly.
MinQ(p, q) == IF p[1] * q[2] <= q[1] * p[2] THEN p ELSE q
LeqQ(p, q) == p[1] * q[2] <= q[1] * p[2]

\* (mutant) no cap: 1.5 ** self.retry_count
backoff_time_uncapped(k) == <<Pow(3, k), Pow(2, k)>>

\* line 115: min(1.5 ** self.retry_count, 2)
backoff_time(k) == MinQ(<<Pow(3, k), Pow(2, k)>>, <<2, 1>>)

\* line 183: min(0.5 * (1.5 ** empty_responses), 2)
sleep_time(k) == MinQ(<<Pow(3, k), 2 * Pow(2, k)>>, <<2, 1>>)

\* range(int(seconds * 10)): the number of 100 ms chunks
Chunks(seconds) == (seconds[1] * 10) \div seconds[2]

\* line 116: chunks of the error backoff
ErrorBackoffChunks(k) == Chunks(backoff_time(k))

\* (mutant) the empty-poll backoff does not grow with the counter
EmptyBackoffChunksOfFirst(k) == Chunks(sleep_time(1))

\* line 184: chunks of the empty-poll backoff
EmptyBackoffChunks(k) == Chunks(sleep_time(k))

\* lines 106-107
is_running == ~stop_event

----------------------------------------------------------------------------
(* Log entries *)

\* The log group as written in a message: its segments joined by "/".
RECURSIVE path(_)
path(log_group) ==
    IF Len(log_group) <= 1 THEN log_group
    ELSE <<Head(log_group), "/">> \o path(Tail(log_group))

\* f"[{timestamp}] [{group_name}] {message}"
rendered(timestamp, name, message) ==
    <<"[">> \o Str(timestamp) \o <<"]", " ", "[", name, "]", " ">> \o message

\* The entry update_logs_display builds from a queued event (lines 199-206).
log_entry(log) ==
    LET timestamp == strftime(log.timestamp)
        name      == group_name(log.group)
    IN  [timestamp |-> timestamp, group |-> name, message |-> log.message,
         full_text |-> rendered(timestamp, name, log.message)]

\* The entry get_log_events appends after retry exhaustion (lines 150-155).
error_log(log_group, e) ==
    [timestamp |-> strftime(clock), group |-> "ERROR",
     message   |-> <<"Failed to fetch logs from ">> \o path(log_group) \o <<": ", e>>,
     full_text |-> <<"[", "ERROR", "]", " ", "Failed to fetch logs from ">>
                   \o path(log_group) \o <<": ", e>>]

\* The event stream_log_group puts on the queue (lines 171-175).
queued(log_group, event) ==
    [timestamp |-> event.timestamp, group |-> log_group,
     message |-> strip(event.message)]

\* filter_log_events(startTime=start_time): the events of the page at or
\* after start_time, in the order the service returns them.
filter_log_events(page, start_time) ==
    SelectSeq(page, LAMBDA ev : ev.timestamp >= start_time)

RECURSIVE Ids(_)
Ids(evs) == IF evs = <<>> THEN {} ELSE {event_id(Head(evs))} \cup Ids(Tail(evs))

----------------------------------------------------------------------------
(* List objects *)

\* Python lists are objects: append and extend change the list in place, for
\* every name bound to it, while an assignment binds one name to another list.
\* logs_buffer and current_logs hold what the lists of these two names
\* contain, same_list tells whether the two names are bound to one list, and
\* filtered_logs, while bound, holds the content of the script's list and
\* which of the two names are bound to that same list.
NoList == <<>>

List(content, names) == <<[list |-> content, bound |-> names]>>

\* `held` after the list bound to `name` was changed in place to `content`.
Mutated(held, name, content) ==
    IF held # NoList /\ name \in held[1].bound
    THEN List(content, held[1].bound)
    ELSE held

\* `held` after `name` was bound to another list.
Rebound(held, name) ==
    IF held = NoList THEN held ELSE List(held[1].list, held[1].bound \ {name})

\* (mutant) no copy: the list itself
copy_same_list(names) == names

\* list.copy(): the names bound to the list it returns, given those bound to
\* the list it is called on: a new list, which no name is bound to.
copy(names) == {}

----------------------------------------------------------------------------
(* What filter_log_events may answer *)

Ok(page)  == [kind |-> "ok", events |-> page]
Raises(e) == [kind |-> "error", e |-> e]

ClientError      == Raises("ThrottlingException")
ResourceNotFound == Raises("ResourceNotFoundException")

Event(t, m) == [timestamp |-> t, message |-> m]

----------------------------------------------------------------------------
(* History *)

NoHist == [attempts |-> 0, succeeded |-> 0, fails |-> 0, errors |-> 0,
           stop_pc |-> "", chunks_after |-> 0, fetch_after |-> 0,
           start |-> <<>>, page |-> 0]

SleepPcs == {"err_sleep", "sleep"}

\* One more chunk slept by g (counted once stop has been called).
HistSleep(g) ==
    IF stop_event
    THEN [hist EXCEPT ![g].chunks_after = @ + 1]
    ELSE hist

\* One more fetch issued by g, answered by r: `start` is the startTime it
\* was sent with and `page` the number of events it returned.
HistFetch(g, r) ==
    [hist EXCEPT ![g].attempts = @ + 1,
                 ![g].succeeded = IF r.kind = "ok" THEN @ + 1 ELSE @,
                 ![g].fails = IF r.kind = "ok" THEN 0 ELSE @ + 1,
                 ![g].fetch_after = IF stop_event THEN @ + 1 ELSE @,
                 ![g].start = <<last_timestamp[g]>>,
                 ![g].page = IF r.kind = "ok"
                             THEN Len(filter_log_events(r.events, last_timestamp[g]))
                             ELSE 0]

\* g has pushed an event of its last fetch: the fetch is no longer recorded.
HistPut(g) == [hist EXCEPT ![g].start = <<>>, ![g].page = 0]

\* One more synthetic error entry produced by g: a new cycle starts.
HistError(g) == [hist EXCEPT ![g].errors = @ + 1, ![g].fails = 0]

----------------------------------------------------------------------------
(* get_log_events, lines 112-157 *)

\* line 114: if self.retry_count > 0
GetLogEvents(g) ==
    /\ pc[g] = "get_log_events"
    /\ pc' = [pc EXCEPT ![g] = IF retry_count > 0 THEN "backoff_time" ELSE "fetch"]
    /\ UNCHANGED <<prog_vars, last_timestamp, empty_responses, events, response,
                   exc, depth, loaded, chunks, slept, cons_vars, display_vars, env_vars, hist_vars>>

\* lines 115-116: backoff_time = min(1.5 ** self.retry_count, 2); range(...)
BackoffTime(g) ==
    /\ pc[g] = "backoff_time"
    /\ chunks' = [chunks EXCEPT ![g] = ErrorBackoffChunks(retry_count)]
    /\ slept' = [slept EXCEPT ![g] = 0]
    /\ pc' = [pc EXCEPT ![g] = "err_check"]
    /\ UNCHANGED <<prog_vars, last_timestamp, empty_responses, events, response,
                   exc, depth, loaded, cons_vars, display_vars, env_vars, hist_vars>>

\* lines 116-118: the next chunk of the error backoff, or return [] on stop;
\* when the range is exhausted the fetch follows with no further test.
ErrCheck(g) ==
    /\ pc[g] = "err_check"
    /\ IF slept[g] >= chunks[g]
       THEN /\ pc' = [pc EXCEPT ![g] = "fetch"]
            /\ UNCHANGED events
       ELSE IF ~is_running
       THEN /\ pc' = [pc EXCEPT ![g] = "returned"]
            /\ events' = [events EXCEPT ![g] = <<>>]
       ELSE /\ pc' = [pc EXCEPT ![g] = "err_sleep"]
            /\ UNCHANGED events
    /\ UNCHANGED <<prog_vars, last_timestamp, empty_responses, response,
                   exc, depth, loaded, chunks, slept, cons_vars, display_vars, env_vars, hist_vars>>

\* line 119: time.sleep(0.1)
ErrSleep(g) ==
    /\ pc[g] = "err_sleep"
    /\ slept' = [slept EXCEPT ![g] = @ + 1]
    /\ pc' = [pc EXCEPT ![g] = "err_check"]
    /\ hist' = HistSleep(g)
    /\ UNCHANGED <<prog_vars, last_timestamp, empty_responses, events, response,
                   exc, depth, loaded, chunks, cons_vars, display_vars, env_vars, fetched, pushed, consumed, last_call, dedup_keys>>

\* The state after a fetch answered by r: line 129 on success (retry_count
\* reset, new_events = []), the except clause of line 142 otherwise.
Answered(g, r) ==
    IF r.kind = "ok"
    THEN LET page == filter_log_events(r.events, last_timestamp[g])
         IN  /\ retry_count' = 0
             /\ response' = [response EXCEPT ![g] = page]
             /\ events' = [events EXCEPT ![g] = <<>>]
             /\ fetched' = [fetched EXCEPT ![g] = @ \cup Ids(page)]
             /\ pc' = [pc EXCEPT ![g] = IF page = <<>> THEN "returned" ELSE "dedup"]
             /\ UNCHANGED exc
    ELSE /\ exc' = [exc EXCEPT ![g] = r.e]
         /\ pc' = [pc EXCEPT ![g] = "except"]
         /\ UNCHANGED <<retry_count, response, events, fetched>>

\* lines 124-129: the request and its answer.
Fetch(g) ==
    /\ pc[g] = "fetch"
    /\ fuel > 0 \/ stop_event
    /\ fuel' = IF fuel > 0 THEN fuel - 1 ELSE fuel
    /\ \E r \in remote[g] :
          /\ Answered(g, r)
          /\ hist' = HistFetch(g, r)
    /\ UNCHANGED <<log_queue, stop_event, seen_events, logs_buffer, current_logs,
                   last_timestamp, empty_responses, loaded, chunks, slept, depth,
                   cons_vars, display_vars, log_groups, remote, clock, batch_remote, refreshes, log_count, pushed, consumed, last_call, dedup_keys>>

\* (mutant) every event is new
IsNewAlways(id, seen) == TRUE

\* The state after the membership test of line 133 on event id `id`.
IsNew(id, seen) == id \notin seen

\* Where get_log_events goes once only `rest` of the response is left.
AfterEvent(rest) == IF rest = <<>> THEN "returned" ELSE "dedup"

\* lines 131-133: the next event of the response; is its id in seen_events?
Dedup(g) ==
    /\ pc[g] = "dedup"
    /\ IF IsNew(event_id(Head(response[g])), seen_events)
       THEN /\ pc' = [pc EXCEPT ![g] = "add"]
            /\ UNCHANGED response
       ELSE /\ response' = [response EXCEPT ![g] = Tail(@)]
            /\ pc' = [pc EXCEPT ![g] = AfterEvent(Tail(response[g]))]
    /\ UNCHANGED <<prog_vars, last_timestamp, empty_responses, events,
                   exc, depth, loaded, chunks, slept, cons_vars, display_vars, env_vars, hist_vars>>

\* (mutant) the id is not recorded
SeenAddForgets(seen, id) == seen

\* seen_events after line 134 for event id `id`.
SeenAdd(seen, id) == seen \cup {id}

\* lines 134-135: self.seen_events.add(event_id); new_events.append(event)
Add(g) ==
    /\ pc[g] = "add"
    /\ seen_events' = SeenAdd(seen_events, event_id(Head(response[g])))
    /\ events' = [events EXCEPT ![g] = Append(@, Head(response[g]))]
    /\ response' = [response EXCEPT ![g] = Tail(@)]
    /\ pc' = [pc EXCEPT ![g] = AfterEvent(Tail(response[g]))]
    /\ UNCHANGED <<log_queue, stop_event, retry_count, logs_buffer, current_logs,
                   last_timestamp, empty_responses, exc, depth, loaded, chunks, slept,
                   cons_vars, display_vars, env_vars, hist_vars>>

\* line 144, first half: self.retry_count += 1 loads the attribute
ExceptLoad(g) ==
    /\ pc[g] = "except"
    /\ loaded' = [loaded EXCEPT ![g] = retry_count]
    /\ pc' = [pc EXCEPT ![g] = "except_store"]
    /\ UNCHANGED <<prog_vars, last_timestamp, empty_responses, events, response,
                   exc, depth, chunks, slept, cons_vars, display_vars, env_vars, hist_vars>>

\* line 144, second half: and stores the sum
ExceptStore(g) ==
    /\ pc[g] = "except_store"
    /\ retry_count' = loaded[g] + 1
    /\ pc' = [pc EXCEPT ![g] = "except_if"]
    /\ UNCHANGED <<log_queue, stop_event, seen_events, logs_buffer, current_logs,
                   last_timestamp, empty_responses, events, response,
                   exc, depth, loaded, chunks, slept, cons_vars, display_vars, env_vars, hist_vars>>

\* (mutant) one retry only: max_retries = 1
MayRetryOnce(count) == count <= 1

\* line 145: the retry test
MayRetry(count) == count <= max_retries

\* The frames of get_log_events a Poller's stack has room for. The interpreter
\* allows about a thousand; the model scales this down to a number that is
\* still larger than the max_retries + 1 frames one Poller's own consecutive
\* failures can nest.
RecursionLimit == 7

\* lines 145-157: retry by calling itself (line 146, in the except clause: a
\* RecursionError raised by that call is not caught here and passes through
\* every frame to stream_log_group), or append the error entry to
\* st.session_state.current_logs and return []
ExceptIf(g) ==
    /\ pc[g] = "except_if"
    /\ IF MayRetry(retry_count)
       THEN /\ IF depth[g] < RecursionLimit
               THEN /\ depth' = [depth EXCEPT ![g] = @ + 1]
                    /\ pc' = [pc EXCEPT ![g] = "get_log_events"]
               ELSE /\ depth' = [depth EXCEPT ![g] = 0]
                    /\ pc' = [pc EXCEPT ![g] = "raised"]
            /\ UNCHANGED <<current_logs, logs_buffer, filtered_logs, events, hist>>
       ELSE /\ current_logs' = Append(current_logs, error_log(g, exc[g]))
            /\ logs_buffer' = IF same_list THEN current_logs' ELSE logs_buffer
            /\ filtered_logs' = Mutated(filtered_logs, "current_logs", current_logs')
            /\ events' = [events EXCEPT ![g] = <<>>]
            /\ pc' = [pc EXCEPT ![g] = "returned"]
            /\ hist' = HistError(g)
            /\ UNCHANGED depth
    /\ UNCHANGED <<log_queue, stop_event, seen_events, retry_count,
                   last_timestamp, empty_responses, response,
                   exc, loaded, chunks, slept, cons_vars, same_list, search_term, env_vars, fetched, pushed, consumed, last_call, dedup_keys>>

----------------------------------------------------------------------------
(* stream_log_group, lines 159-191 *)

\* line 163: while self.is_running()
While(g) ==
    /\ pc[g] = "while"
    /\ pc' = [pc EXCEPT ![g] = IF is_running THEN "get_log_events" ELSE "stopped"]
    /\ depth' = [depth EXCEPT ![g] = IF is_running THEN 1 ELSE 0]
    /\ UNCHANGED <<prog_vars, last_timestamp, empty_responses, events, response,
                   exc, loaded, chunks, slept, cons_vars, display_vars, env_vars, hist_vars>>

\* (mutant) an empty result ends the loop as well
LeavesLoopOnEmpty(evs) == ~is_running \/ evs = <<>>

\* lines 166-167: if not self.is_running(): break
LeavesLoop(evs) == ~is_running

\* lines 166-169 and 181-184: get_log_events has returned `events`
Returned(g) ==
    /\ pc[g] = "returned"
    /\ IF LeavesLoop(events[g])
       THEN /\ pc' = [pc EXCEPT ![g] = "stopped"]
            /\ UNCHANGED <<empty_responses, chunks, slept>>
       ELSE IF events[g] # <<>>
       THEN /\ empty_responses' = [empty_responses EXCEPT ![g] = 0]
            /\ pc' = [pc EXCEPT ![g] = "put"]
            /\ UNCHANGED <<chunks, slept>>
       ELSE /\ empty_responses' = [empty_responses EXCEPT ![g] = @ + 1]
            /\ chunks' = [chunks EXCEPT ![g] = EmptyBackoffChunks(empty_responses[g] + 1)]
            /\ slept' = [slept EXCEPT ![g] = 0]
            /\ pc' = [pc EXCEPT ![g] = "sleep_check"]
    /\ depth' = [depth EXCEPT ![g] = 0]
    /\ UNCHANGED <<prog_vars, last_timestamp, events, response,
                   exc, loaded, cons_vars, display_vars, env_vars, hist_vars>>

\* (mutant) the cursor stops at the event: max(last_timestamp, event['timestamp'])
AdvanceToEvent(last, event) == Max(last, event.timestamp)

\* line 176: last_timestamp = max(last_timestamp, event['timestamp'] + 1)
Advance(last, event) == Max(last, event.timestamp + 1)

\* lines 170-177: put the next event on the queue and advance last_timestamp;
\* after the last one the steady-state pacing starts
Put(g) ==
    /\ pc[g] = "put"
    /\ log_queue' = Append(log_queue, queued(g, Head(events[g])))
    /\ last_timestamp' = [last_timestamp EXCEPT ![g] = Advance(@, Head(events[g]))]
    /\ pushed' = [pushed EXCEPT ![g] = Append(@, Head(events[g]))]
    /\ hist' = HistPut(g)
    /\ events' = [events EXCEPT ![g] = Tail(@)]
    /\ IF Tail(events[g]) = <<>>
       THEN /\ chunks' = [chunks EXCEPT ![g] = PacingChunks]
            /\ slept' = [slept EXCEPT ![g] = 0]
            /\ pc' = [pc EXCEPT ![g] = "sleep_check"]
       ELSE UNCHANGED <<chunks, slept, pc>>
    /\ UNCHANGED <<stop_event, seen_events, retry_count, logs_buffer, current_logs,
                   empty_responses, response, exc, depth, loaded,
                   cons_vars, display_vars, env_vars, fetched, consumed, last_call, dedup_keys>>

\* lines 177-179 and 184-186: the next chunk, or break on stop
SleepCheck(g) ==
    /\ pc[g] = "sleep_check"
    /\ pc' = [pc EXCEPT ![g] = IF slept[g] >= chunks[g] \/ ~is_running
                               THEN "while" ELSE "sleep"]
    /\ UNCHANGED <<prog_vars, last_timestamp, empty_responses, events, response,
                   exc, depth, loaded, chunks, slept, cons_vars, display_vars, env_vars, hist_vars>>

\* lines 180 and 187: time.sleep(0.1)
Sleep(g) ==
    /\ pc[g] = "sleep"
    /\ slept' = [slept EXCEPT ![g] = @ + 1]
    /\ pc' = [pc EXCEPT ![g] = "sleep_check"]
    /\ hist' = HistSleep(g)
    /\ UNCHANGED <<prog_vars, last_timestamp, empty_responses, events, response,
                   exc, depth, loaded, chunks, cons_vars, display_vars, env_vars, fetched, pushed, consumed, last_call, dedup_keys>>

\* lines 188-191: an exception raised by the loop body is caught; break on
\* stop, else time.sleep(0.25) and the loop goes on
Except(g) ==
    /\ pc[g] = "raised"
    /\ pc' = [pc EXCEPT ![g] = IF ~is_running THEN "stopped" ELSE "while"]
    /\ UNCHANGED <<prog_vars, last_timestamp, empty_responses, events, response,
                   exc, depth, loaded, chunks, slept, cons_vars, display_vars, env_vars, hist_vars>>

----------------------------------------------------------------------------
(* update_logs_display, lines 193-234 *)

\* (mutant) while True
ConsumerRunsForever == TRUE

\* line 195: the loop test of update_logs_display
ConsumerRuns == is_running

\* line 195: while self.is_running()
ConsumerWhile ==
    /\ cpc = "while"
    /\ cpc' = IF ConsumerRuns THEN "poll" ELSE "stopped"
    /\ UNCHANGED <<prog_vars, poller_vars, display_vars, cslept, env_vars, hist_vars>>

\* (mutant) the first 200 logs are kept: logs_buffer[:200]
AppendedKeepsFirst(buffer, entry) ==
    SubSeq(Append(buffer, entry), 1, Min(Len(buffer) + 1, LogsBufferCap))

\* (mutant) the newest log comes first: logs_buffer.insert(0, log_entry)
Prepended(buffer, entry) == Last(<<entry>> \o buffer, LogsBufferCap)

\* lines 207-211: append, then keep only the last 200 logs
Appended(buffer, entry) == Last(Append(buffer, entry), LogsBufferCap)

\* lines 197-215 and 227: take one event off the queue if there is one, append
\* its entry to logs_buffer, publish a copy as current_logs; then the pause
UpdateLogsDisplay ==
    /\ cpc = "poll"
    /\ IF log_queue # <<>>
       THEN LET appended  == Append(logs_buffer, log_entry(Head(log_queue)))
                truncated == Len(appended) > LogsBufferCap
                \* line 207: every name bound to the buffer sees the append
                held      == Mutated(filtered_logs, "logs_buffer", appended)
                \* line 211: the slice is a new list
                kept      == IF truncated THEN Rebound(held, "logs_buffer") ELSE held
                buffer    == IF truncated \/ ~same_list THEN {"logs_buffer"}
                             ELSE {"logs_buffer", "current_logs"}
                \* line 215: current_logs is bound to the copy
                shared    == "logs_buffer" \in copy(buffer)
            IN  /\ log_queue' = Tail(log_queue)
                /\ logs_buffer' = Appended(logs_buffer, log_entry(Head(log_queue)))
                /\ current_logs' = logs_buffer'
                /\ same_list' = shared
                /\ filtered_logs' =
                      IF kept = NoList THEN NoList
                      ELSE IF shared /\ "logs_buffer" \in kept[1].bound
                      THEN List(kept[1].list, {"logs_buffer", "current_logs"})
                      ELSE Rebound(kept, "current_logs")
                /\ consumed' = Append(consumed, Head(log_queue))
       ELSE UNCHANGED <<log_queue, logs_buffer, current_logs, consumed,
                        same_list, filtered_logs>>
    /\ cslept' = 0
    /\ cpc' = "sleep_check"
    /\ UNCHANGED <<stop_event, seen_events, retry_count, poller_vars, search_term, env_vars,
                   fetched, pushed, hist, last_call, dedup_keys>>

\* lines 227-229: the next 50 ms chunk, or break on stop
ConsumerSleepCheck ==
    /\ cpc = "sleep_check"
    /\ cpc' = IF cslept >= ConsumerChunks \/ ~is_running THEN "while" ELSE "sleep"
    /\ UNCHANGED <<prog_vars, poller_vars, display_vars, cslept, env_vars, hist_vars>>

\* line 230: time.sleep(0.05)
ConsumerSleep ==
    /\ cpc = "sleep"
    /\ cslept' = cslept + 1
    /\ cpc' = "sleep_check"
    /\ UNCHANGED <<prog_vars, poller_vars, display_vars, env_vars, hist_vars>>

----------------------------------------------------------------------------
(* The script thread: stop(), "Clear All" *)

\* (mutant) stop() empties the queue as well
StopAndDrain ==
    /\ stop_event' = TRUE
    /\ log_queue' = <<>>
    /\ hist' = IF stop_event THEN hist
               ELSE [g \in log_groups |-> [hist[g] EXCEPT !.stop_pc = pc[g]]]
    /\ UNCHANGED <<seen_events, retry_count, logs_buffer, current_logs,
                   poller_vars, cons_vars, display_vars, env_vars, fetched, pushed, consumed, last_call, dedup_keys>>

\* lines 103-104: self._stop_event.set()
Stop ==
    /\ stop_event' = TRUE
    /\ hist' = IF stop_event THEN hist
               ELSE [g \in log_groups |-> [hist[g] EXCEPT !.stop_pc = pc[g]]]
    /\ UNCHANGED <<log_queue, seen_events, retry_count, logs_buffer, current_logs,
                   poller_vars, cons_vars, display_vars, env_vars, fetched, pushed, consumed, last_call, dedup_keys>>

\* lines 911-912: st.session_state.current_logs = []
\* (a new list; the button reruns the script, whose filtered_logs is unbound
\* until the new run binds it)
ClearAll ==
    /\ current_logs' = <<>>
    /\ same_list' = FALSE
    /\ filtered_logs' = NoList
    /\ UNCHANGED <<log_queue, stop_event, seen_events, retry_count, logs_buffer,
                   poller_vars, cons_vars, search_term, env_vars, hist_vars>>

----------------------------------------------------------------------------
(* fetch_recent_logs, lines 280-354 *)

\* start_time=None; a task_id of None or "" is the empty string (line 308
\* tests its truth value).
None   == -1
NoTask == <<>>

\* The log groups fetch_recent_logs goes through, in order (lines 284-289).
batch_log_groups == <<PortfolioManagerAgent, MarketAnalysisAgent,
                      RiskAssessmentAgent, TradeExecutionAgent>>

\* t occurs in s (Python's "t in s" on strings)
Contains(s, t) ==
    \E k \in 0..(Len(s) - Len(t)) : SubSeq(s, k + 1, k + Len(t)) = t

\* filter_log_events(startTime, endTime, filterPattern): the events of the
\* page in the window that match the pattern, when one is given.
filter_window(page, start_time, end_time, task_id) ==
    SelectSeq(page, LAMBDA ev :
        /\ ev.timestamp >= start_time
        /\ ev.timestamp <= end_time
        /\ (task_id # NoTask => Contains(ev.message, task_id)))

\* The entry fetch_recent_logs builds from an event (lines 314-321).
batch_entry(log_group, event) ==
    LET timestamp == strftime(event.timestamp)
        name      == group_name(log_group)
    IN  [timestamp |-> timestamp, group |-> name, message |-> strip(event.message),
         full_text |-> rendered(timestamp, name, strip(event.message))]

\* The entry for a failed fetch (lines 327-332).
batch_error(log_group, e) ==
    [timestamp |-> strftime(clock), group |-> "ERROR",
     message   |-> <<"Failed to fetch from ">> \o path(log_group) \o <<": ", e>>,
     full_text |-> <<"[", "ERROR", "]", " ", "Failed to fetch from ">>
                   \o path(log_group) \o <<": ", e>>]

RECURSIVE Entries(_, _)
Entries(log_group, evs) ==
    IF evs = <<>> THEN <<>>
    ELSE <<batch_entry(log_group, Head(evs))>> \o Entries(log_group, Tail(evs))

\* lines 324-333: only a ResourceNotFoundException adds no error entry
IsNotFound(e) == e = "ResourceNotFoundException"

\* lines 299-333 for one log group answered by r
GroupLogs(log_group, r, start_time, end_time, task_id) ==
    IF r.kind = "ok"
    THEN Entries(log_group, filter_window(r.events, start_time, end_time, task_id))
    ELSE IF IsNotFound(r.e) THEN <<>>
    ELSE <<batch_error(log_group, r.e)>>

\* (mutant) the first failing log group ends the loop: one try around the loop
RECURSIVE NewLogsAbortsOnFailure(_, _, _, _, _)
NewLogsAbortsOnFailure(k, answers, start_time, end_time, task_id) ==
    IF k > Len(batch_log_groups) THEN <<>>
    ELSE GroupLogs(batch_log_groups[k], answers[batch_log_groups[k]],
                   start_time, end_time, task_id)
         \o (IF answers[batch_log_groups[k]].kind = "ok"
             THEN NewLogsAbortsOnFailure(k + 1, answers, start_time, end_time, task_id)
             ELSE <<>>)

\* lines 298-333: new_logs after the groups k..Len(batch_log_groups)
RECURSIVE NewLogs(_, _, _, _, _)
NewLogs(k, answers, start_time, end_time, task_id) ==
    IF k > Len(batch_log_groups) THEN <<>>
    ELSE GroupLogs(batch_log_groups[k], answers[batch_log_groups[k]],
                   start_time, end_time, task_id)
         \o NewLogs(k + 1, answers, start_time, end_time, task_id)

\* list.sort(key=timestamp): a stable sort, by insertion
RECURSIVE Insert(_, _)
Insert(sorted, x) ==
    IF sorted = <<>> THEN <<x>>
    ELSE IF sorted[Len(sorted)].timestamp <= x.timestamp THEN Append(sorted, x)
    ELSE Append(Insert(SubSeq(sorted, 1, Len(sorted) - 1), x), sorted[Len(sorted)])
\* (mutant) no sort: the logs stay grouped by log group
Unsorted(logs) == logs

RECURSIVE SortByTimestamp(_)
SortByTimestamp(logs) ==
    IF logs = <<>> THEN <<>>
    ELSE Insert(SortByTimestamp(SubSeq(logs, 1, Len(logs) - 1)), logs[Len(logs)])

\* lines 341-342: the new logs whose full_text is not in current_logs
UniqueNewLogs(new_logs, existing) ==
    LET existing_texts == {existing[k].full_text : k \in 1..Len(existing)}
    IN  SelectSeq(new_logs, LAMBDA log : log.full_text \notin existing_texts)

\* (mutant) the first 1000 logs are kept: current_logs[:1000]
ExtendedKeepsFirst(existing, unique_new_logs) ==
    SubSeq(existing \o unique_new_logs, 1,
           Min(Len(existing) + Len(unique_new_logs), SessionLogsCap))

\* lines 344-348: extend, then keep only the last 1000 logs
Extended(existing, unique_new_logs) == Last(existing \o unique_new_logs, SessionLogsCap)

\* fetch_recent_logs(start_time, task_id), each log group answered by answers
FetchRecentLogs(answers, start_time, task_id) ==
    LET end_time == clock
        start    == IF start_time = None THEN end_time - (5 * 60 * 1000) ELSE start_time
        new_logs == NewLogs(1, answers, start, end_time, task_id)
        sorted   == SortByTimestamp(new_logs)
        unique   == UniqueNewLogs(sorted, current_logs)
    IN  /\ current_logs' = Extended(current_logs, unique)
        \* line 344 extends the list in place, line 348 binds a new one
        /\ logs_buffer' = IF same_list THEN current_logs \o unique ELSE logs_buffer
        /\ same_list' = (same_list /\ Len(current_logs \o unique) <= SessionLogsCap)
        /\ log_count' = Len(unique)
        /\ last_call' = <<[answers |-> answers, start_time |-> start_time,
                           task_id |-> task_id, start |-> start, end_time |-> end_time,
                           new_logs |-> new_logs, before |-> current_logs,
                           after |-> current_logs', count |-> log_count']>>

\* The log groups of batch_log_groups, as a set.
BatchGroups == {batch_log_groups[k] : k \in 1..Len(batch_log_groups)}

\* The answers the service may give to one call: one for each log group.
BatchAnswers ==
    {answers \in [BatchGroups -> UNION {batch_remote[g] : g \in BatchGroups}] :
        \A g \in BatchGroups : answers[g] \in batch_remote[g]}

\* line 907 ("Refresh") and lines 523, 587: the script thread calls
\* fetch_recent_logs
Refresh ==
    /\ refreshes > 0
    /\ refreshes' = refreshes - 1
    /\ \E answers \in BatchAnswers,
          start_time \in {None, StartTime}, task_id \in {NoTask, <<"a">>} :
          FetchRecentLogs(answers, start_time, task_id)
    /\ filtered_logs' = NoList
    /\ UNCHANGED <<log_queue, stop_event, seen_events, retry_count,
                   poller_vars, cons_vars, search_term, log_groups, remote, fuel, clock, batch_remote,
                   fetched, pushed, hist, consumed, dedup_keys>>

----------------------------------------------------------------------------
(* The Logs tab, lines 916-975 *)

\* str.lower(), character by character; the texts the program itself writes
\* (the "ERROR" label, the log group names) are single elements of a string
\* and are lowered as a whole.
LowerCase ==
    [c \in {"A", "B", "ERROR", "adt-dev-PortfolioManagerAgent", "adt-dev-MarketAnalysisAgent",
            "adt-dev-RiskAssessmentAgent", "adt-dev-TradeExecutionAgent"} |->
        CASE c = "A" -> "a"
          [] c = "B" -> "b"
          [] c = "ERROR" -> "error"
          [] c = "adt-dev-PortfolioManagerAgent" -> "adt-dev-portfoliomanageragent"
          [] c = "adt-dev-MarketAnalysisAgent" -> "adt-dev-marketanalysisagent"
          [] c = "adt-dev-RiskAssessmentAgent" -> "adt-dev-riskassessmentagent"
          [] OTHER -> "adt-dev-tradeexecutionagent"]

lower(s) == [k \in 1..Len(s) |-> IF s[k] \in DOMAIN LowerCase THEN LowerCase[s[k]] ELSE s[k]]

\* (mutant) the comparison is case-sensitive
MatchesCase(term, log) == Contains(log.full_text, term)

\* line 962: search_term.lower() in log['full_text'].lower()
Matches(term, log) == Contains(lower(log.full_text), lower(term))

\* lines 960-962: the list itself when the term is empty, else a new list of
\* the matching logs
Filtered(logs, term) ==
    IF term # <<>> THEN SelectSeq(logs, LAMBDA log : Matches(term, log)) ELSE logs

\* lines 916 and 948-962: a run of the script reaches the Logs tab with the
\* text `term` in the search input and binds filtered_logs
Display(term) ==
    /\ current_logs # <<>>
    /\ search_term' = term
    /\ filtered_logs' =
          List(Filtered(current_logs, term),
               IF term # <<>> THEN {}
               ELSE IF same_list THEN {"logs_buffer", "current_logs"}
               ELSE {"current_logs"})
    /\ UNCHANGED <<prog_vars, poller_vars, cons_vars, env_vars, hist_vars, same_list>>

----------------------------------------------------------------------------
(* The two dedup keys, lines 132 and 320 *)

\* The key each path computes for the events of `sourced`, a sequence of
\* events with the log group each comes from: the event_id of get_log_events
\* (line 132) and the full_text of fetch_recent_logs (lines 314-320).
DedupKeys(sourced) ==
    /\ dedup_keys' =
          <<[sourced    |-> sourced,
             event_ids  |-> [k \in 1..Len(sourced) |-> event_id(sourced[k].event)],
             full_texts |-> [k \in 1..Len(sourced) |->
                               batch_entry(sourced[k].group, sourced[k].event).full_text]]>>
    /\ UNCHANGED <<prog_vars, poller_vars, cons_vars, env_vars, display_vars,
                   fetched, pushed, hist, consumed, last_call>>

----------------------------------------------------------------------------
(* Initial states *)

\* The state after __init__ (lines 93-101) and init_session_state (line 248),
\* with one Poller thread started for each log group of `groups`, each from
\* start_time, and the consumer thread started; `queue` is what the Pollers
\* have put on log_queue before the consumer's first step.
\* `logs` is what earlier calls of fetch_recent_logs have left in the
\* session's current_logs (the reader is constructed later than the session).
Session(groups, start_time, queue, logs) ==
    /\ log_queue = queue
    /\ stop_event = FALSE
    /\ seen_events = {}
    /\ retry_count = 0
    /\ logs_buffer = <<>>
    /\ current_logs = logs
    /\ log_groups = groups
    /\ pc = [g \in groups |-> "while"]
    /\ last_timestamp = [g \in groups |-> start_time]
    /\ empty_responses = [g \in groups |-> 0]
    /\ events = [g \in groups |-> <<>>]
    /\ response = [g \in groups |-> <<>>]
    /\ exc = [g \in groups |-> ""]
    /\ loaded = [g \in groups |-> 0]
    /\ chunks = [g \in groups |-> 0]
    /\ slept = [g \in groups |-> 0]
    /\ depth = [g \in groups |-> 0]
    /\ cpc = "while"
    /\ cslept = 0
    /\ fetched = [g \in groups |-> {}]
    /\ pushed = [g \in groups |-> <<>>]
    /\ hist = [g \in groups |-> NoHist]
    /\ consumed = <<>>
    /\ last_call = <<>>
    /\ dedup_keys = <<>>
    /\ same_list = FALSE
    /\ search_term = <<>>
    /\ filtered_logs = NoList

Filled(groups, start_time, queue) == Session(groups, start_time, queue, <<>>)

Constructed(groups, start_time) == Filled(groups, start_time, <<>>)

\* The environment: which answers the service may give to the Pollers (at
\* most `fetches` of them before stop) and to fetch_recent_logs (called at
\* most `calls` times), and the time of day.
EnvironmentAt(answers, fetches, batch_answers, calls, now) ==
    /\ remote = answers
    /\ fuel = fetches
    /\ batch_remote = batch_answers
    /\ refreshes = calls
    /\ clock = now
    /\ log_count = 0

Environment(answers, fetches, batch_answers, calls) ==
    EnvironmentAt(answers, fetches, batch_answers, calls, 2 * 1000)

\* fetch_recent_logs is not called.
NoBatch == [g \in BatchGroups |-> {}]

\* Sequences over S of length at most k
RECURSIVE SeqsUpTo(_, _)
SeqsUpTo(S, k) ==
    IF k = 0 THEN {<<>>}
    ELSE LET shorter == SeqsUpTo(S, k - 1)
         IN  shorter \cup {Append(q, x) : q \in shorter, x \in S}

Answers(evs, k) == {Ok(page) : page \in SeqsUpTo(evs, k)} \cup {ClientError, ResourceNotFound}

Poller(g) ==
    \/ While(g) \/ GetLogEvents(g) \/ BackoffTime(g) \/ ErrCheck(g) \/ ErrSleep(g)
    \/ Fetch(g) \/ Dedup(g) \/ Add(g)
    \/ ExceptLoad(g) \/ ExceptStore(g) \/ ExceptIf(g)
    \/ Returned(g) \/ Put(g) \/ SleepCheck(g) \/ Sleep(g)

Consumer == ConsumerWhile \/ UpdateLogsDisplay \/ ConsumerSleepCheck \/ ConsumerSleep

----------------------------------------------------------------------------
(* Spec: one Poller and stop(); the service may answer anything *)

MaxFetch == 2
MaxPage  == 2

\* Two events that differ in trailing whitespace only, and a later one.
SomeEvents == {Event(100, <<"a">>), Event(100, <<"a", " ">>), Event(101, <<"a">>)}

Init ==
    /\ Constructed({PortfolioManagerAgent}, StartTime)
    /\ Environment([g \in log_groups |-> Answers(SomeEvents, MaxPage)], MaxFetch, NoBatch, 0)

Next ==
    \/ \E g \in log_groups : Poller(g)
    \/ Stop

Spec == Init /\ [][Next]_vars

----------------------------------------------------------------------------
(* SpecLive: one Poller, the consumer and stop(), each thread scheduled    *)
(* fairly                                                                  *)

InitLive ==
    /\ Constructed({PortfolioManagerAgent}, StartTime)
    /\ Environment([g \in log_groups |-> {Ok(<<Event(100, <<"a">>)>>), ClientError}],
                   MaxFetch, NoBatch, 0)

NextLive ==
    \/ \E g \in log_groups : Poller(g)
    \/ Consumer
    \/ Stop

SpecLive ==
    /\ InitLive
    /\ [][NextLive]_vars
    /\ \A g \in {PortfolioManagerAgent} : WF_vars(Poller(g))
    /\ WF_vars(Consumer)

----------------------------------------------------------------------------
(* SpecRetry: two Pollers on one reader, every fetch fails *)

MaxFailures == 6

\* The steps of a Poller whose fetches return no events.
FailingPoller(g) ==
    \/ While(g) \/ GetLogEvents(g) \/ BackoffTime(g) \/ ErrCheck(g) \/ ErrSleep(g)
    \/ Fetch(g)
    \/ ExceptLoad(g) \/ ExceptStore(g) \/ ExceptIf(g)
    \/ Returned(g) \/ SleepCheck(g) \/ Sleep(g)

InitRetry ==
    /\ Constructed({PortfolioManagerAgent, MarketAnalysisAgent}, StartTime)
    /\ Environment([g \in log_groups |-> {ClientError}], MaxFailures, NoBatch, 0)

NextRetry == \E g \in log_groups : FailingPoller(g)

SpecRetry == InitRetry /\ [][NextRetry]_vars

----------------------------------------------------------------------------
(* SpecShared: two Pollers on one reader, both sources hold an event with  *)
(* the same timestamp and message                                          *)

MaxSharedFetch == 2

InitShared ==
    /\ Constructed({PortfolioManagerAgent, MarketAnalysisAgent}, StartTime)
    /\ Environment([g \in log_groups |-> {Ok(<<Event(100, <<"a">>)>>)}],
                   MaxSharedFetch, NoBatch, 0)

NextShared == \E g \in log_groups : Poller(g)

SpecShared == InitShared /\ [][NextShared]_vars

----------------------------------------------------------------------------
(* SpecExhaust: one Poller, the consumer and "Clear All"; enough fetches   *)
(* for a retry budget to be exhausted                                      *)

MaxExhaustFetch == 7

InitExhaust ==
    /\ Constructed({PortfolioManagerAgent}, StartTime)
    /\ Environment([g \in log_groups |-> {Ok(<<Event(100, <<"a">>)>>), ClientError}],
                   MaxExhaustFetch, NoBatch, 0)

NextExhaust ==
    \/ \E g \in log_groups : Poller(g)
    \/ Consumer
    \/ ClearAll

SpecExhaust == InitExhaust /\ [][NextExhaust]_vars

----------------------------------------------------------------------------
(* SpecBuffer: the consumer alone, draining a queue that the Pollers have  *)
(* filled with more events than logs_buffer keeps                          *)

MaxExtra == 3

LateAt == {1, 2, LogsBufferCap, LogsBufferCap + 1}

\* The k-th event of a feed whose events arrive in timestamp order, one per
\* second, except the one at position `late`, which is older than all others.
FeedEvent(k, late) ==
    [timestamp |-> IF k = late THEN 0 ELSE k * 1000,
     group     |-> IF k % 2 = 0 THEN PortfolioManagerAgent ELSE MarketAnalysisAgent,
     message   |-> <<"a">>]

InitBuffer ==
    /\ \E late \in LateAt, len \in {LogsBufferCap + MaxExtra} :
          Filled({}, StartTime, [k \in 1..len |-> FeedEvent(k, late)])
    /\ Environment(<<>>, 0, NoBatch, 0)


NextBuffer == Consumer

SpecBuffer == InitBuffer /\ [][NextBuffer]_vars

----------------------------------------------------------------------------
(* SpecBatch: the script thread alone, calling fetch_recent_logs and       *)
(* "Clear All" from an empty session; every log group may fail             *)

MaxRefresh == 2

\* Two events of one second whose messages differ in trailing whitespace
\* only: they render as the same line.
SameLine == <<Event(100, <<"a">>), Event(200, <<"a", " ">>)>>

BatchRemote ==
    [g \in BatchGroups |->
        IF g = PortfolioManagerAgent
        THEN {Ok(SameLine), Ok(<<Event(1100, <<"b">>)>>), ClientError}
        ELSE IF g = MarketAnalysisAgent
        THEN {Ok(<<Event(50, <<"b">>), Event(1500, <<"a">>)>>), ClientError, ResourceNotFound}
        ELSE IF g = RiskAssessmentAgent
        THEN {Ok(<<>>), ClientError}
        ELSE {Ok(<<Event(500, <<" ", "a">>)>>), ClientError}]

InitBatch ==
    /\ Constructed({}, StartTime)
    /\ Environment(<<>>, 0, BatchRemote, MaxRefresh)

NextBatch == Refresh \/ ClearAll

SpecBatch == InitBatch /\ [][NextBatch]_vars

----------------------------------------------------------------------------
(* SpecFull: the script thread alone, in a session whose current_logs      *)
(* earlier calls of fetch_recent_logs have filled up to its capacity       *)

MaxFullRefresh == 2

\* The k-th entry earlier calls have accumulated: one event a second.
Accumulated(k) == batch_entry(PortfolioManagerAgent, Event(k * 1000, <<"a">>))

\* The oldest event of the accumulated list, still held by the service.
Oldest == Event(1000, <<"a">>)

FullRemote ==
    [g \in BatchGroups |->
        IF g = PortfolioManagerAgent
        THEN {Ok(<<Oldest, Event((SessionLogsCap + 1) * 1000, <<"a">>)>>),
              Ok(<<Event(SessionLogsCap * 1000, <<"a">>),
                   Event((SessionLogsCap + 1) * 1000, <<"a">>),
                   Event((SessionLogsCap + 1) * 1000, <<"b">>)>>)}
        ELSE IF g = MarketAnalysisAgent
        THEN {ClientError, ResourceNotFound}
        ELSE {Ok(<<>>)}]

InitFull ==
    /\ \E len \in {SessionLogsCap - 1, SessionLogsCap} :
          Session({}, StartTime, <<>>, [k \in 1..len |-> Accumulated(k)])
    /\ EnvironmentAt(<<>>, 0, FullRemote, MaxFullRefresh, (SessionLogsCap + 2) * 1000)

NextFull == Refresh \/ ClearAll

SpecFull == InitFull /\ [][NextFull]_vars

----------------------------------------------------------------------------
(* SpecSession: a session whose current_logs is at its capacity, in which  *)
(* a Poller is started on a log group whose every fetch fails, while the   *)
(* script thread may call fetch_recent_logs and "Clear All"; nothing is    *)
(* queued, so the consumer has nothing to publish and is left out          *)

MaxSessionRefresh == 1

SessionRemote ==
    [g \in BatchGroups |->
        IF g = PortfolioManagerAgent
        THEN {Ok(<<Oldest, Event((SessionLogsCap + 1) * 1000, <<"a">>)>>)}
        ELSE IF g = MarketAnalysisAgent
        THEN {ClientError}
        ELSE {Ok(<<>>)}]

InitSession ==
    /\ Session({PortfolioManagerAgent}, StartTime, <<>>,
               [k \in 1..SessionLogsCap |-> Accumulated(k)])
    /\ EnvironmentAt([g \in log_groups |-> {ClientError}], max_retries + 1,
                     SessionRemote, MaxSessionRefresh, (SessionLogsCap + 2) * 1000)

NextSession ==
    \/ \E g \in log_groups : FailingPoller(g)
    \/ Refresh
    \/ ClearAll

SpecSession == InitSession /\ [][NextSession]_vars

----------------------------------------------------------------------------
(* SpecClear: one Poller whose fetches succeed, the consumer, and the      *)
(* script thread calling fetch_recent_logs and "Clear All"                 *)

MaxClearFetch   == 2
MaxClearRefresh == 1

\* The steps of a Poller whose fetches raise nothing.
SucceedingPoller(g) ==
    \/ While(g) \/ GetLogEvents(g) \/ Fetch(g) \/ Dedup(g) \/ Add(g)
    \/ Returned(g) \/ Put(g) \/ SleepCheck(g) \/ Sleep(g)

ClearRemote ==
    [g \in BatchGroups |->
        IF g = MarketAnalysisAgent THEN {Ok(<<Event(500, <<"b">>)>>)} ELSE {Ok(<<>>)}]

InitClear ==
    /\ Constructed({PortfolioManagerAgent}, StartTime)
    /\ Environment([g \in log_groups |->
                       {Ok(<<Event(100, <<"a">>), Event(1100, <<"a">>)>>)}],
                   MaxClearFetch, ClearRemote, MaxClearRefresh)

NextClear ==
    \/ \E g \in log_groups : SucceedingPoller(g)
    \/ Consumer
    \/ Refresh
    \/ ClearAll

SpecClear == InitClear /\ [][NextClear]_vars

----------------------------------------------------------------------------
(* SpecDeep: two Pollers on one reader; every fetch of the first source    *)
(* fails, every fetch of the second succeeds and finds nothing             *)

MaxDeepFetch == 8

\* The steps of a Poller whose fetches return no events, with the except
\* clause of its loop.
DeepPoller(g) == FailingPoller(g) \/ Except(g)

InitDeep ==
    /\ Constructed({PortfolioManagerAgent, MarketAnalysisAgent}, StartTime)
    /\ Environment([g \in log_groups |->
                       IF g = PortfolioManagerAgent THEN {ClientError} ELSE {Ok(<<>>)}],
                   MaxDeepFetch, NoBatch, 0)

NextDeep == \E g \in log_groups : DeepPoller(g)

SpecDeep == InitDeep /\ [][NextDeep]_vars

----------------------------------------------------------------------------
(* SpecScenario: three Pollers on one reader and the consumer. The first   *)
(* source holds two events, the second none, the third fails twice and     *)
(* then answers with no events.                                            *)

\* The fetches each Poller gets an answer to.
FetchesOfA == 2
FetchesOfB == 1
FetchesOfC == 3

\* The failures of the third source before its first success.
FailuresOfC == 2

SourceA == PortfolioManagerAgent
SourceB == MarketAnalysisAgent
SourceC == RiskAssessmentAgent

EventsOfA == <<Event(100, <<"a">>), Event(101, <<"b">>)>>

Fetches(g) == IF g = SourceA THEN FetchesOfA
              ELSE IF g = SourceB THEN FetchesOfB ELSE FetchesOfC

\* lines 124-129 in the scenario: the third source's first fetches fail, its
\* later ones succeed.
ScenarioFetch(g) ==
    /\ hist[g].attempts < Fetches(g)
    /\ Fetch(g)
    /\ g = SourceC => (hist[g].attempts < FailuresOfC <=> pc'[g] = "except")

\* The Poller has a fetch of the scenario to come, or has not yet pushed
\* what its last fetch returned. The scenario follows a Poller as long as
\* this holds; its sleeps after its last fetch are not followed.
Busy(g) ==
    \/ hist[g].attempts < Fetches(g)
    \/ pc[g] \in {"dedup", "add", "returned", "put", "except", "except_store", "except_if"}

\* Where a thread's next step reads and writes its own locals only, and the
\* stop flag, which nothing sets in the scenario: the loop tests and the
\* chunks of the sleeps. Such a step commutes with every step of the other
\* threads, so the scenario runs it before any step that touches shared state
\* and interleaves the threads at their accesses to retry_count, seen_events,
\* log_queue, logs_buffer and current_logs.
LocalPcs         == {"while", "err_check", "err_sleep", "returned", "sleep_check", "sleep"}
ConsumerLocalPcs == {"while", "sleep_check", "sleep"}

PollersSettled == \A h \in log_groups : Busy(h) => pc[h] \notin LocalPcs
Settled        == PollersSettled /\ cpc \notin ConsumerLocalPcs

ScenarioPoller(g) ==
    \/ Busy(g) /\ While(g)
    \/ Busy(g) /\ ErrCheck(g)
    \/ Busy(g) /\ ErrSleep(g)
    \/ Busy(g) /\ Returned(g)
    \/ Busy(g) /\ SleepCheck(g)
    \/ Busy(g) /\ Sleep(g)
    \/ Settled /\ GetLogEvents(g)
    \/ Settled /\ BackoffTime(g)
    \/ Settled /\ ScenarioFetch(g)
    \/ Settled /\ Dedup(g)
    \/ Settled /\ Add(g)
    \/ Settled /\ ExceptLoad(g)
    \/ Settled /\ ExceptStore(g)
    \/ Settled /\ ExceptIf(g)
    \/ Settled /\ Put(g)

ScenarioConsumer ==
    \/ ConsumerWhile
    \/ ConsumerSleepCheck
    \/ ConsumerSleep
    \/ Settled /\ UpdateLogsDisplay

InitScenario ==
    /\ Constructed({SourceA, SourceB, SourceC}, StartTime)
    /\ Environment([g \in log_groups |->
                       IF g = SourceA THEN {Ok(EventsOfA)}
                       ELSE IF g = SourceB THEN {Ok(<<>>)}
                       ELSE {ClientError, Ok(<<>>)}],
                   FetchesOfA + FetchesOfB + FetchesOfC, NoBatch, 0)

NextScenario ==
    \/ \E g \in log_groups : ScenarioPoller(g)
    \/ ScenarioConsumer

SpecScenario == InitScenario /\ [][NextScenario]_vars

----------------------------------------------------------------------------
(* SpecBackoff: one Poller whose fetches fail or find nothing, as often as *)
(* it takes for both counters to pass the point where the cap applies      *)

MaxBackoffFetch == 8

InitBackoff ==
    /\ Constructed({PortfolioManagerAgent}, StartTime)
    /\ Environment([g \in log_groups |-> {ClientError, Ok(<<>>)}],
                   MaxBackoffFetch, NoBatch, 0)

NextBackoff == \E g \in log_groups : FailingPoller(g)

SpecBackoff == InitBackoff /\ [][NextBackoff]_vars

----------------------------------------------------------------------------
(* SpecSnapshot: the consumer draining a queue of more events than          *)
(* logs_buffer keeps, while runs of the script show the Logs tab once the   *)
(* buffer is about to be full                                               *)

MaxSnapshotExtra == 2

SnapshotTerms == {<<>>, <<"a">>}

SnapshotDisplay ==
    /\ Len(logs_buffer) >= LogsBufferCap - 1
    /\ \E term \in SnapshotTerms : Display(term)

InitSnapshot ==
    /\ Filled({}, StartTime, [k \in 1..(LogsBufferCap + MaxSnapshotExtra) |-> FeedEvent(k, 0)])
    /\ Environment(<<>>, 0, NoBatch, 0)

NextSnapshot == Consumer \/ SnapshotDisplay

SpecSnapshot == InitSnapshot /\ [][NextSnapshot]_vars

----------------------------------------------------------------------------
(* SpecFilter: runs of the script showing the Logs tab of a session whose   *)
(* current_logs holds entries of both paths, with a search term             *)

MaxFilterLen == 2

FilterMessages == {<<"a">>, <<"A">>, <<"a", "b">>, <<"B", "a">>}

\* Entries as fetch_recent_logs and update_logs_display build them.
FilterEntries ==
    {batch_entry(g, Event(StartTime, m)) :
        g \in {PortfolioManagerAgent, MarketAnalysisAgent}, m \in FilterMessages}
    \cup {log_entry(queued(TradeExecutionAgent, Event(StartTime, <<"b", "A", " ">>)))}
    \cup {batch_error(RiskAssessmentAgent, "ThrottlingException")}

FilterTerms == {<<>>, <<"a">>, <<"A">>, <<"b">>, <<"a", "B">>, <<"b", "a">>,
                <<"error">>, <<"ERROR">>, <<"]", " ", "[">>, <<"a", " ">>}

InitFilter ==
    /\ Environment(<<>>, 0, NoBatch, 0)
    /\ \E logs \in SeqsUpTo(FilterEntries, MaxFilterLen) : Session({}, StartTime, <<>>, logs)

NextFilter == \E term \in FilterTerms : Display(term)

SpecFilter == InitFilter /\ [][NextFilter]_vars

----------------------------------------------------------------------------
(* SpecSeen: two Pollers on one reader whose sources hold the same two      *)
(* events, and the script thread calling fetch_recent_logs and "Clear All"  *)

MaxSeenFetch   == 2
MaxSeenRefresh == 1

InitSeen ==
    /\ Constructed({PortfolioManagerAgent, MarketAnalysisAgent}, StartTime)
    /\ Environment([g \in log_groups |->
                       {Ok(<<Event(100, <<"a">>), Event(101, <<"a">>)>>)}],
                   MaxSeenFetch, ClearRemote, MaxSeenRefresh)

NextSeen ==
    \/ \E g \in log_groups : SucceedingPoller(g)
    \/ Refresh
    \/ ClearAll

SpecSeen == InitSeen /\ [][NextSeen]_vars

----------------------------------------------------------------------------
(* SpecDrain: two Pollers whose fetches succeed and the consumer, each      *)
(* thread scheduled fairly; stop() is not called                            *)

MaxDrainFetch == 2

\* The events the two sources hold: three in all.
MaxDrainEvents == 3

DrainRemote ==
    [g \in {PortfolioManagerAgent, MarketAnalysisAgent} |->
        IF g = PortfolioManagerAgent
        THEN {Ok(<<Event(100, <<"a">>), Event(101, <<"b">>)>>)}
        ELSE {Ok(<<Event(100, <<"c">>)>>)}]

InitDrain ==
    /\ Constructed({PortfolioManagerAgent, MarketAnalysisAgent}, StartTime)
    /\ Environment(DrainRemote, MaxDrainFetch, NoBatch, 0)

NextDrain ==
    \/ \E g \in log_groups : SucceedingPoller(g)
    \/ Consumer

SpecDrain ==
    /\ InitDrain
    /\ [][NextDrain]_vars
    /\ \A g \in {PortfolioManagerAgent, MarketAnalysisAgent} : WF_vars(SucceedingPoller(g))
    /\ WF_vars(Consumer)

----------------------------------------------------------------------------
(* SpecKeys: the keys of both paths for any three events of two log groups *)

MaxKeyEvents == 3

KeyTimes    == {100, 200, 1100}
KeyMessages == {<<"a">>, <<"a", " ">>, <<"b">>}
KeySources  == [group : {PortfolioManagerAgent, MarketAnalysisAgent},
                event : {Event(t, m) : t \in KeyTimes, m \in KeyMessages}]

InitKeys ==
    /\ Constructed({}, StartTime)
    /\ Environment(<<>>, 0, NoBatch, 0)

\* The keys are computed once, for one choice of events.
NextKeys ==
    /\ dedup_keys = <<>>
    /\ \E sourced \in [1..MaxKeyEvents -> KeySources] : DedupKeys(sourced)

SpecKeys == InitKeys /\ [][NextKeys]_vars

----------------------------------------------------------------------------
(* SpecRefetch: two Pollers on one reader and stop(); what the second       *)
(* source holds starts with the one event of the first                      *)

MaxRefetch == 3

RefetchRemote ==
    [g \in {PortfolioManagerAgent, MarketAnalysisAgent} |->
        IF g = PortfolioManagerAgent
        THEN {Ok(<<Event(100, <<"a">>)>>)}
        ELSE {Ok(<<Event(100, <<"a">>)>>),
              Ok(<<Event(100, <<"a">>), Event(101, <<"b">>)>>)}]

InitRefetch ==
    /\ Constructed({PortfolioManagerAgent, MarketAnalysisAgent}, StartTime)
    /\ Environment(RefetchRemote, MaxRefetch, NoBatch, 0)

NextRefetch ==
    \/ \E g \in log_groups : SucceedingPoller(g)
    \/ Stop

SpecRefetch == InitRefetch /\ [][NextRefetch]_vars

----------------------------------------------------------------------------
(* Claims *)

Range(q) == {q[k] : k \in 1..Len(q)}

NoRepeat(q) == \A j, k \in 1..Len(q) : j # k => q[j] # q[k]

\* The dedup key (timestamp, message) of an event as it is on the channel.
QueuedId(log) == event_id([timestamp |-> log.timestamp, message |-> log.message])

C2_BufferIsLast200InArrivalOrder ==
    /\ Len(logs_buffer) <= LogsBufferCap
    /\ logs_buffer = Last([k \in 1..Len(consumed) |-> log_entry(consumed[k])], LogsBufferCap)

\* C2 witness: more than 200 events consumed, and the entry evicted first has
\* a later timestamp than one that is kept.
C2_Witness ==
    /\ Len(consumed) > LogsBufferCap
    /\ \E k \in 1..Len(logs_buffer) :
          logs_buffer[k].timestamp < log_entry(consumed[1]).timestamp

\* C3: for a source whose every fetch has failed, each synthetic error entry
\* stands for a whole cycle of max_retries + 1 attempts.
C3_OneErrorPerSixAttempts ==
    \A g \in log_groups :
        hist[g].succeeded = 0 => hist[g].errors * (max_retries + 1) <= hist[g].attempts

\* C4: a source's error is surfaced only when that source itself has failed
\* max_retries + 1 times in a row since its last success or last error entry.
C4_SurfacedAfterOwnSixFailures ==
    [][\A g \in log_groups :
          hist'[g].errors > hist[g].errors => hist[g].fails >= max_retries + 1]_vars

\* C5: a Poller back at the top of its loop has pushed every event it
\* fetched; none was suppressed because of another Poller's events.
C5_NothingSuppressedByOtherSource ==
    \A g \in log_groups :
        pc[g] = "while" => fetched[g] \subseteq {event_id(e) : e \in Range(pushed[g])}

\* C6: a Poller that was in a backoff sleep when stop() was called sleeps at
\* most one more chunk and issues no further fetch.
C6_StopInBackoffEndsWithinOneChunk ==
    \A g \in log_groups :
        hist[g].stop_pc \in SleepPcs =>
            hist[g].chunks_after <= 1 /\ hist[g].fetch_after = 0

Terminated == (\A g \in log_groups : pc[g] = "stopped") /\ cpc = "stopped"

\* C7: once stop() has been called, every Poller loop and the consumer loop
\* terminate.
C7_StopLeadsToTermination == stop_event ~> Terminated

\* C7 witness: all loops have ended after stop(), the Poller having fetched.
C7_Witness ==
    /\ stop_event /\ Terminated
    /\ \E g \in log_groups : hist[g].attempts > 0 /\ hist[g].stop_pc \in SleepPcs

\* C8: a Poller has left its loop only if the stop flag is set.
C8_OnlyStopEndsPolling ==
    \A g \in log_groups : pc[g] = "stopped" => stop_event

\* C8 witness: a source has exhausted its retries, stop() has not been called
\* and every Poller is running.
C8_Witness ==
    /\ ~stop_event
    /\ \E g \in log_groups : hist[g].errors > 0
    /\ \A g \in log_groups : pc[g] # "stopped"

\* C9: an ERROR entry of current_logs is still there after every step, unless
\* the step is "Clear All" or the list is at capacity.
C9_ErrorEntryStays ==
    [][\A k \in 1..Len(current_logs) :
          current_logs[k].group = "ERROR" =>
              \/ current_logs[k] \in Range(current_logs')
              \/ ClearAll
              \/ Len(current_logs) >= LogsBufferCap]_vars

\* C10: a fetch answered "resource not found" leaves retry_count as it was.
C10_NotFoundCountsNoRetry ==
    \A g \in log_groups :
        (pc[g] = "except_if" /\ IsNotFound(exc[g])) => retry_count = loaded[g]

\* The entries of `logs` that a failed fetch of log group g has produced.
ErrorsOf(logs, g) ==
    SelectSeq(logs, LAMBDA l : l.group = "ERROR" /\ Contains(l.message, path(g)))

\* The entries of `logs` built from events of log group g.
EventsOf(logs, g) == SelectSeq(logs, LAMBDA l : l.group = group_name(g))

\* The events of a page the call c asks for: in its window, with its token.
Asked(c, page) ==
    SelectSeq(page, LAMBDA ev :
        /\ c.start <= ev.timestamp /\ ev.timestamp <= c.end_time
        /\ (c.task_id # NoTask => Contains(ev.message, c.task_id)))

\* C12: in a call of fetch_recent_logs every log group contributes on its
\* own, whatever the other groups answer: a group that answers contributes one
\* entry for each event asked for and these are in the list after the call; a
\* group that fails contributes exactly one ERROR entry, or nothing when the
\* failure is "resource not found".
C12_FailuresAreIsolated ==
    \A c \in Range(last_call) : \A g \in BatchGroups :
        LET r      == c.answers[g]
            errors == ErrorsOf(c.new_logs, g)
            own    == EventsOf(c.new_logs, g)
        IN  IF r.kind = "ok"
            THEN /\ errors = <<>>
                 /\ Len(own) = Len(Asked(c, r.events))
                 /\ \A ev \in Range(Asked(c, r.events)) :
                       \E l \in Range(c.after) :
                           /\ l.group = group_name(g)
                           /\ l.timestamp = ev.timestamp \div 1000
                           /\ l.message = strip(ev.message)
            ELSE /\ own = <<>>
                 /\ Len(errors) = IF r.e = "ResourceNotFoundException" THEN 0 ELSE 1
                 /\ \A l \in Range(errors) :
                       \E m \in Range(c.after) : m.full_text = l.full_text

\* C12 witness: the first log group failed, another was not found, and the
\* events of the last one were added all the same.
C12_Witness ==
    \E c \in Range(last_call) :
        /\ c.answers[PortfolioManagerAgent] = ClientError
        /\ c.answers[MarketAnalysisAgent] = ResourceNotFound
        /\ c.answers[TradeExecutionAgent].kind = "ok"
        /\ Len(EventsOf(c.after, TradeExecutionAgent)) = 1
        /\ Len(ErrorsOf(c.after, PortfolioManagerAgent)) = 1
        /\ c.count >= 2

\* C20: no rendered line (full_text) occurs twice in current_logs.
C20_NoRenderedLineTwice ==
    NoRepeat([k \in 1..Len(current_logs) |-> current_logs[k].full_text])

\* C11: a call of fetch_recent_logs that follows a call with the same
\* start_time and task_id, answered as that call was, with current_logs as that
\* call left it, returns 0 and leaves current_logs unchanged.
C11_SecondCallAddsNothing ==
    [][(/\ refreshes' < refreshes
        /\ last_call # <<>>
        /\ last_call[1].after = current_logs
        /\ last_call'[1].answers = last_call[1].answers
        /\ last_call'[1].start_time = last_call[1].start_time
        /\ last_call'[1].task_id = last_call[1].task_id)
       => (log_count' = 0 /\ current_logs' = current_logs)]_vars

\* C13: the count a call returned is the number of entries of new_logs whose
\* line was not in the list before the call; the list after the call is the
\* end of the list before followed by exactly these entries, 1000 at most in
\* all, so that its length is min(1000, before + count).
C13_CountIsWhatWasAdded ==
    \A c \in Range(last_call) :
        LET texts == {c.before[k].full_text : k \in 1..Len(c.before)}
            fresh == {j \in 1..Len(c.new_logs) : c.new_logs[j].full_text \notin texts}
            kept  == Len(c.after) - c.count
            added == SubSeq(c.after, kept + 1, Len(c.after))
        IN  /\ c.count = Cardinality(fresh)
            /\ Len(c.after) = Min(SessionLogsCap, Len(c.before) + c.count)
            /\ kept >= 0
            /\ SubSeq(c.after, 1, kept)
                  = SubSeq(c.before, Len(c.before) - kept + 1, Len(c.before))
            /\ \A x \in Range(added) \cup {c.new_logs[j] : j \in fresh} :
                  Cardinality({k \in 1..Len(added) : added[k] = x})
                     = Cardinality({j \in fresh : c.new_logs[j] = x})

\* C13 witness: a call that found both a line already in the list and new
\* ones, and pushed the list over its capacity.
C13_Witness ==
    \E c \in Range(last_call) :
        /\ c.count > 0
        /\ c.count < Len(c.new_logs)
        /\ Len(c.before) + c.count > SessionLogsCap
        /\ Len(c.after) = SessionLogsCap

\* C14: current_logs never holds more than 1000 entries.
C14_SessionLogsWithinCapacity == Len(current_logs) <= SessionLogsCap

\* C19: a step other than "Clear All" keeps every entry of current_logs,
\* except that it may evict the oldest ones of a list at its capacity; "Clear
\* All" leaves the list empty; and no step puts back an entry that the reader
\* has published earlier and that is no longer in the list.
C19_LostOnlyByEvictionOrClear ==
    [][/\ \/ ClearAll
          \/ \E k \in 0..Len(current_logs) :
                /\ k > 0 => Len(current_logs') \in {LogsBufferCap, SessionLogsCap}
                /\ Len(current_logs') >= Len(current_logs) - k
                /\ SubSeq(current_logs, k + 1, Len(current_logs))
                      = SubSeq(current_logs', 1, Len(current_logs) - k)
       /\ ClearAll => current_logs' = <<>>
       /\ \A x \in Range(current_logs') \ Range(current_logs) :
             x \notin Range(logs_buffer)]_vars

\* C15: no call of get_log_events ends by raising: whatever the fetches
\* answer, it returns to stream_log_group with a list.
C15_GetLogEventsAlwaysReturns ==
    \A g \in log_groups : pc[g] # "raised"

\* Every fetch of the scenario has been answered, every Poller has pushed
\* what it was returned, and the consumer has emptied the queue.
Drained ==
    /\ \A g \in log_groups : ~Busy(g)
    /\ log_queue = <<>>

\* C16: in the scenario of three sources the snapshot never holds an ERROR
\* entry nor an entry of the second or third source, and once the queue is
\* drained it holds exactly the entries of the two events of the first source.
C16_ScenarioSnapshot ==
    /\ \A k \in 1..Len(current_logs) : current_logs[k].group = group_name(SourceA)
    /\ Drained =>
          /\ Len(current_logs) = 2
          /\ \A k \in 1..Len(EventsOfA) :
                \E j \in 1..Len(current_logs) :
                    /\ current_logs[j].timestamp = EventsOfA[k].timestamp \div 1000
                    /\ current_logs[j].message = EventsOfA[k].message

\* C16 witness: the queue is drained after the third source has failed twice
\* and succeeded, and the failures were counted.
C16_Witness ==
    /\ Drained
    /\ hist[SourceC].succeeded = 1
    /\ hist[SourceC].attempts = FetchesOfC
    /\ Len(current_logs) = 2

C18_PushedInTimestampOrder ==
    \A g \in log_groups :
        \A j, k \in 1..Len(pushed[g]) :
            j < k => pushed[g][j].timestamp <= pushed[g][k].timestamp

\* C21: when update_logs_display publishes, current_logs holds what
\* logs_buffer holds, in order, and is another list than the buffer; and the
\* list a run of the script holds is the same after the consumer has appended
\* to the buffer, evicted from it and published again.
C21_SnapshotIsACopy ==
    [][(UpdateLogsDisplay /\ log_queue # <<>>) =>
          /\ current_logs' = logs_buffer'
          /\ ~same_list'
          /\ filtered_logs # NoList =>
                /\ filtered_logs' # NoList
                /\ filtered_logs'[1].list = filtered_logs[1].list]_vars

\* C21 witness: a run holds the snapshot it read from current_logs while the
\* consumer has since appended and evicted: the first entry the run holds is
\* no longer in the buffer.
C21_Witness ==
    /\ filtered_logs # NoList
    /\ search_term = <<>>
    /\ Len(consumed) > LogsBufferCap
    /\ Len(filtered_logs[1].list) = LogsBufferCap
    /\ filtered_logs[1].list[1] \notin Range(logs_buffer)
    /\ filtered_logs[1].list # current_logs

\* The k-th smallest element of a set of numbers.
RECURSIVE Nth(_, _)
Nth(S, k) ==
    LET least == CHOOSE x \in S : \A y \in S : x <= y
    IN  IF k = 1 THEN least ELSE Nth(S \ {least}, k - 1)

\* C22: the filtered list is made of exactly the entries of current_logs
\* whose line contains the search term when both are lowered, in the order of
\* current_logs; it is the whole list when the term is empty; and showing the
\* tab leaves current_logs as it was.
C22_FilterSelectsMatchingLines ==
    /\ [](filtered_logs # NoList =>
            LET shown == filtered_logs[1].list
                match == {k \in 1..Len(current_logs) :
                             Contains(lower(current_logs[k].full_text), lower(search_term))}
            IN  /\ Len(shown) = Cardinality(match)
                /\ \A j \in 1..Len(shown) : shown[j] = current_logs[Nth(match, j)]
                /\ search_term = <<>> => shown = current_logs)
    /\ [][current_logs' = current_logs]_vars

\* C22 witness: a term in capitals has selected the one line of two that
\* holds it in small letters.
C22_Witness ==
    /\ filtered_logs # NoList
    /\ search_term = <<"a", "B">>
    /\ Len(current_logs) = 2
    /\ Len(filtered_logs[1].list) = 1
    /\ filtered_logs[1].list[1] = current_logs[2]
    /\ Contains(current_logs[2].full_text, <<"a", "b">>)

\* C23: the membership test of the dedup step sends an event on to be
\* returned exactly when its key is not in seen_events, and changes nothing
\* else; an event that passed the test is appended to the returned events and
\* its key is in the set afterwards, the set gaining at most that key; and no
\* step of any thread takes a key out of seen_events.
C23_IsNewTestsAndInserts ==
    [][/\ seen_events \subseteq seen_events'
       /\ \A g \in log_groups :
             LET event == Head(response[g])
                 moved == pc'[g] # pc[g] \/ response'[g] # response[g]
             IN  /\ (pc[g] = "dedup" /\ moved) =>
                       /\ pc'[g] = "add" <=> event_id(event) \notin seen_events
                       /\ seen_events' = seen_events
                       /\ events'[g] = events[g]
                 /\ (pc[g] = "add" /\ moved) =>
                       /\ seen_events' = seen_events \cup {event_id(event)}
                       /\ events'[g] = Append(events[g], event)]_vars

\* C23 witness: a Poller whose event passed the test is about to insert a
\* key that the other Poller has inserted since, while that Poller has
\* already had an event suppressed.
C23_Witness ==
    \E g, h \in log_groups :
        /\ g # h
        /\ pc[g] = "add"
        /\ event_id(Head(response[g])) \in seen_events
        /\ Len(pushed[h]) = 1
        /\ hist[h].attempts = 1
        /\ pc[h] \in {"sleep_check", "sleep", "while"}

\* The largest timestamp of the events of q, or `least` when there is none.
RECURSIVE MaxTimestamp(_, _)
MaxTimestamp(q, least) ==
    IF q = <<>> THEN least
    ELSE MaxTimestamp(Tail(q), Max(least, Head(q).timestamp))

\* C24: a Poller's last_timestamp is the larger of its start time and the
\* largest timestamp it has pushed plus one, hence greater than the
\* timestamp of every event it has pushed; it never decreases, and it changes
\* only in a step that pushes an event.
C24_CursorIsPastEveryPushedEvent ==
    /\ [](\A g \in log_groups :
             /\ last_timestamp[g] = MaxTimestamp(pushed[g], StartTime - 1) + 1
             /\ \A k \in 1..Len(pushed[g]) : pushed[g][k].timestamp < last_timestamp[g])
    /\ [][\A g \in log_groups :
             /\ last_timestamp'[g] >= last_timestamp[g]
             /\ last_timestamp'[g] # last_timestamp[g] => pushed'[g] # pushed[g]]_vars

\* C24 witness: a page out of order was pushed and a failed fetch followed:
\* the cursor is past the later event, which was pushed first.
C24_Witness ==
    \E g \in log_groups :
        /\ Len(pushed[g]) = 2
        /\ pushed[g][1].timestamp > pushed[g][2].timestamp
        /\ last_timestamp[g] = pushed[g][1].timestamp + 1
        /\ hist[g].attempts = 2
        /\ pc[g] = "except_if"

\* C25: the step of get_log_events that appends the synthetic error entry
\* leaves retry_count at 0, and the call of get_log_events that follows goes
\* to its fetch without an error backoff.
C25_ExhaustionResetsRetryCount ==
    [][\A g \in log_groups :
          /\ hist'[g].errors > hist[g].errors => retry_count' = 0
          /\ (pc[g] = "get_log_events" /\ depth[g] = 1 /\ hist[g].errors > 0
                 /\ hist[g].fails = 0 /\ pc'[g] # pc[g])
                => pc'[g] = "fetch"]_vars

\* C26: the store of line 144 leaves retry_count one higher than it was, a
\* fetch that succeeds leaves it at 0; a call of get_log_events that is a
\* retry starts with the error backoff, whose chunks are those of the
\* retry_count of that moment; and a fetch that follows a backoff is made
\* with retry_count > 0.
C26_BackoffBeforeEveryRetry ==
    [][\A g \in log_groups :
          /\ (pc[g] = "except_store" /\ pc'[g] = "except_if") =>
                retry_count' = retry_count + 1
          /\ (pc[g] = "fetch" /\ pc'[g] \in {"dedup", "returned"}) => retry_count' = 0
          /\ (pc[g] = "get_log_events" /\ depth[g] > 1 /\ pc'[g] # pc[g]) =>
                pc'[g] = "backoff_time"
          /\ (pc[g] = "backoff_time" /\ pc'[g] # pc[g]) =>
                (retry_count > 0 /\ chunks'[g] = Chunks(backoff_time(retry_count)))
          /\ (pc[g] = "err_check" /\ pc'[g] = "fetch") => retry_count > 0]_vars

\* C27: while the stop flag is unset, a poll that returned no event leaves
\* empty_responses one higher and starts the empty-poll backoff of the new
\* count; a poll that returned events leaves it at 0, and the pacing of 5
\* chunks starts after the last of them is pushed; the counter changes and a
\* sleep starts in no other step.
C27_EmptyPollCounter ==
    [][\A g \in log_groups :
          /\ (pc[g] = "returned" /\ pc'[g] # pc[g] /\ ~stop_event) =>
                IF events[g] = <<>>
                THEN /\ empty_responses'[g] = empty_responses[g] + 1
                     /\ pc'[g] = "sleep_check"
                     /\ slept'[g] = 0
                     /\ chunks'[g] = Chunks(sleep_time(empty_responses'[g]))
                ELSE /\ empty_responses'[g] = 0
                     /\ pc'[g] = "put"
          /\ (pc[g] = "put" /\ pc'[g] # pc[g]) =>
                /\ pc'[g] = "sleep_check"
                /\ slept'[g] = 0
                /\ chunks'[g] = PacingChunks
                /\ empty_responses'[g] = 0
          /\ empty_responses'[g] # empty_responses[g] => pc[g] = "returned"
          /\ (pc'[g] = "sleep_check" /\ pc[g] \notin {"sleep_check", "sleep"}) =>
                pc[g] \in {"returned", "put"}]_vars

\* C27 witness: a first poll found nothing and the second found an event:
\* the counter is back at 0 and the pacing starts.
C27_Witness ==
    \E g \in log_groups :
        /\ ~stop_event
        /\ pc[g] = "sleep_check" /\ slept[g] = 0 /\ chunks[g] = PacingChunks
        /\ empty_responses[g] = 0
        /\ hist[g].attempts = 2 /\ hist[g].succeeded = 2
        /\ Len(pushed[g]) = 1

\* C28: the events taken off the queue followed by those still on it are the
\* events put, in the order put: a step either leaves this sequence alone or
\* is a put that extends it at its end; logs_buffer holds the entries of the
\* events taken off, in that order; and the k-th event put is in the end
\* appended to logs_buffer, unless stop() is called.
C28_DrainedInArrivalOrder ==
    /\ [](logs_buffer = Last([k \in 1..Len(consumed) |-> log_entry(consumed[k])],
                             LogsBufferCap))
    /\ [][LET arrived == consumed \o log_queue
          IN  \/ arrived' = arrived
              \/ \E g \in log_groups :
                    /\ pc[g] = "put"
                    /\ arrived' = Append(arrived, queued(g, Head(events[g])))]_vars
    /\ \A k \in 1..MaxDrainEvents :
          (Len(consumed \o log_queue) >= k) ~> (Len(logs_buffer) >= k \/ stop_event)

\* C28 witness: the events of both sources have been appended to the buffer,
\* the one of the second source between the two of the first, and stop() has
\* not been called.
C28_Witness ==
    /\ ~stop_event
    /\ log_queue = <<>>
    /\ Len(logs_buffer) = MaxDrainEvents
    /\ logs_buffer[1].group = group_name(PortfolioManagerAgent)
    /\ logs_buffer[2].group = group_name(MarketAnalysisAgent)
    /\ logs_buffer[3].group = group_name(PortfolioManagerAgent)

\* C29: the continuous path gives two events the same key exactly when they
\* have the same timestamp and the same message as fetched, whatever their
\* log groups; the batch path gives them the same key exactly when they are
\* of the same second, of the same log group and have the same message once
\* stripped. (Neither condition implies the other: see the witness.)
C29_KeysOfTheTwoPaths ==
    \A c \in Range(dedup_keys) : \A j, k \in 1..Len(c.sourced) :
        LET x == c.sourced[j]
            y == c.sourced[k]
        IN  /\ c.event_ids[j] = c.event_ids[k]
                  <=> /\ x.event.timestamp = y.event.timestamp
                      /\ x.event.message = y.event.message
            /\ c.full_texts[j] = c.full_texts[k]
                  <=> /\ x.event.timestamp \div 1000 = y.event.timestamp \div 1000
                      /\ group_name(x.group) = group_name(y.group)
                      /\ strip(x.event.message) = strip(y.event.message)

\* C29 witness: of three events, two are distinct for the continuous path
\* and duplicates for the batch path, and two are duplicates for the
\* continuous path and distinct for the batch path.
C29_Witness ==
    \E c \in Range(dedup_keys) : \E i, j, k \in 1..Len(c.sourced) :
        /\ c.event_ids[i] # c.event_ids[j]
        /\ c.full_texts[i] = c.full_texts[j]
        /\ c.event_ids[j] = c.event_ids[k]
        /\ c.full_texts[j] # c.full_texts[k]

\* C30: the entries a call of fetch_recent_logs has appended are in
\* non-decreasing order of their timestamp, those of one timestamp in the
\* order in which the log groups were gone through; and the entries the list
\* held before the call that are still in it are in the order they were in.
C30_AppendedInTimestampOrder ==
    \A c \in Range(last_call) :
        LET kept  == Len(c.after) - c.count
            added == SubSeq(c.after, kept + 1, Len(c.after))
        IN  /\ \A j, k \in 1..Len(added) :
                  j < k =>
                     /\ added[j].timestamp <= added[k].timestamp
                     /\ added[j].timestamp = added[k].timestamp =>
                           \E p, q \in 1..Len(c.new_logs) :
                               /\ p < q
                               /\ c.new_logs[p] = added[j]
                               /\ c.new_logs[q] = added[k]
            /\ SubSeq(c.after, 1, kept)
                  = SubSeq(c.before, Len(c.before) - kept + 1, Len(c.before))

\* C30 witness: a call added, to a list that was not empty, entries of two
\* log groups that the loop had collected out of timestamp order, two of
\* them of one second.
C30_Witness ==
    \E c \in Range(last_call) :
        /\ c.before # <<>>
        /\ c.count >= 3
        /\ Len(c.after) = Len(c.before) + c.count
        /\ \E p, q \in 1..Len(c.new_logs) :
              p < q /\ c.new_logs[p].timestamp > c.new_logs[q].timestamp
        /\ \E j \in 1..(Len(c.after) - 1) :
              /\ j > Len(c.before)
              /\ c.after[j].timestamp = c.after[j + 1].timestamp
              /\ c.after[j].group # c.after[j + 1].group

\* The last fetch of g returned events and get_log_events has found every
\* one of them in seen_events: it has returned [] (or is about to).
AllSeenPoll(g) ==
    /\ hist[g].page > 0
    /\ hist[g].start # <<>>
    /\ response[g] = <<>>
    /\ events[g] = <<>>

\* C31: after a poll whose events were all in seen_events already, the
\* Poller pushes nothing and leaves last_timestamp alone; at line 166 it
\* leaves the loop if the stop flag is set, as after an empty poll, and else
\* adds one to empty_responses (in no other step before its next fetch) and
\* starts the empty-poll backoff of the new count, the queue unchanged; its
\* next fetch is sent with the startTime of this one.
C31_AllSeenPollIsAnEmptyPoll ==
    [][\A g \in log_groups :
          AllSeenPoll(g) =>
             /\ pushed'[g] = pushed[g]
             /\ last_timestamp'[g] = last_timestamp[g]
             /\ (pc[g] = "returned" /\ pc'[g] # pc[g]) =>
                   /\ log_queue' = log_queue
                   /\ IF stop_event
                      THEN /\ pc'[g] = "stopped"
                           /\ empty_responses'[g] = empty_responses[g]
                      ELSE /\ empty_responses'[g] = empty_responses[g] + 1
                           /\ pc'[g] = "sleep_check"
                           /\ slept'[g] = 0
                           /\ chunks'[g] = Chunks(sleep_time(empty_responses'[g]))
             /\ pc[g] # "returned" => empty_responses'[g] = empty_responses[g]
             /\ hist'[g].attempts > hist[g].attempts =>
                   hist'[g].start = hist[g].start]_vars

\* C31 witness: the first fetch of a Poller returned events the other Poller
\* had seen; the Poller has counted one empty poll, pushed nothing, and its
\* second fetch, sent with the same startTime, has returned events.
C31_Witness ==
    \E g \in log_groups :
        /\ ~stop_event
        /\ hist[g].attempts = 2
        /\ hist[g].start = <<StartTime>>
        /\ hist[g].page > 0
        /\ pc[g] = "dedup"
        /\ empty_responses[g] = 1
        /\ pushed[g] = <<>>
        /\ last_timestamp[g] = StartTime

\* C32: is_running() is true after construction; a step in which it becomes
\* false is a step of stop() and changes no field of the reader other than
\* the flag, no local of a thread and nothing of the session; once false it
\* is false after every step; and stop() called with the flag set changes
\* nothing.
C32_StopFlagIsPermanent ==
    /\ is_running
    /\ [](~is_running => ~ENABLED (Stop /\ vars' # vars))
    /\ [][/\ ~is_running => ~is_running'
          /\ (is_running /\ ~is_running') =>
                /\ Stop
                /\ UNCHANGED <<log_queue, seen_events, retry_count, logs_buffer,
                               current_logs, last_timestamp, empty_responses,
                               poller_vars, cons_vars, display_vars, env_vars>>]_vars

\* C32 witness: stop() was called when an event had been seen, pushed and
\* displayed and a fetch had failed; every loop has ended since, and the
\* seen set, the retry count and the buffer are as they were.
C32_Witness ==
    /\ ~is_running
    /\ Terminated
    /\ seen_events # {}
    /\ retry_count > 0
    /\ logs_buffer # <<>>
    /\ \E g \in log_groups : hist[g].stop_pc \notin {"", "stopped"}

====
